---- MODULE Spec2Model ----
(***************************************************************************)
(* speech-timer: the precision timer state machine (TimerEngine) and the   *)
(* threshold-crossing bell scheduler (BellScheduler) with the store        *)
(* actions its caller uses (triggerBell, resetBells).                      *)
(*                                                                         *)
(* Time.  The source keeps every time value in a JavaScript number of      *)
(* milliseconds.  The model keeps them as integers counted in sub-units:   *)
(* the clock advances by ClockStep sub-units at a time and every duration  *)
(* is a multiple of ClockStep, where ClockStep is the least common         *)
(* multiple of the positive durations.  That makes the quotient of         *)
(* setDuration's rescale (newDuration * remaining / oldDuration) an exact  *)
(* integer, so the model computes the rescale in exact arithmetic (the     *)
(* source computes it in IEEE doubles, up to one rounding).                *)
(***************************************************************************)
EXTENDS Integers, Sequences, FiniteSets, TLC

VARIABLES
    state,               \* TimerEngine.state (TimerEngineState)
    rafId,               \* TimerEngine.rafId
    lastPrecisionCheck,  \* TimerEngine.lastPrecisionCheck
    pendingFrames,       \* frame callbacks requested and neither fired nor cancelled
    now,                 \* the reading of performance.now()
    lastOp,              \* history: the operation that made the last step
    events,              \* history: callbacks invoked by the last step, in order
    segSum,              \* history: summed length of the completed run segments
    segStart,            \* history: clock reading at which the open run segment began
    rescale,             \* history: "paused" after a setDuration that changed the
                         \* duration of a paused timer, "resumed" from the resume
                         \* after it until the next tick or call that changes the
                         \* state, "none" otherwise
    lastRemainingMs,     \* BellScheduler.lastRemainingMs
    settings,            \* the store's settings (bellEnabled, bellTimesMs)
    bells,               \* the store's bells (BellState)
    returned,            \* the list the last checkBells call returned
    samples,             \* history: the samples checkBells was given since the last reset
    firedAt,             \* history: per bell, the indices in samples at which it fired
    firedEarlier,        \* history: per bell, whether it fired before the last reset
    refBells,            \* useTimer: callbacksRef.current.bells
    bellCalls,           \* history: the checkBells calls the last step made, in order
    others,              \* the further useTimer observers: each one's
                         \* BellScheduler.lastRemainingMs and callbacksRef.current.bells
    sinceReset,          \* history: "reset" after the hook's reset(), "started"
                         \* after the start() that follows it, until the next
                         \* frame tick or call; "none" otherwise
    storeDurationMs,     \* the store's timer.durationMs
    engineSetDurationCalls, \* history: the calls of timerSingleton.setDuration
                         \* the last step made
    call                 \* one application of shouldTriggerBell: its arguments and result

engineVars == <<state, rafId, lastPrecisionCheck, pendingFrames, now,
                lastOp, events, segSum, segStart, rescale>>

hookVars == <<others, sinceReset, storeDurationMs, engineSetDurationCalls>>

bellVars == <<lastRemainingMs, settings, bells, returned, samples, firedAt,
              firedEarlier, refBells, bellCalls, hookVars>>

vars == <<engineVars, bellVars, call>>

\* ------------------------------------------------------------------ bounds
MaxTime == 5

MaxRemaining == 3   \* the largest remaining-time sample given to checkBells
MaxSamples == 4     \* checkBells calls between two resets
HookMaxTime == 2    \* clock steps in the specification of the hook
SharedMaxTime == 2  \* clock steps in the specification with two observers
OwnMaxTime == 2     \* clock steps in the specification of the hook with its own engine
NestMaxTime == 2    \* clock steps in the specification with re-entrant callbacks
MaxFrames == 3      \* frame callbacks outstanding at once, re-entrant callbacks

\* durations the caller may pass, in clock steps (0 is the zero-duration timer)
DurationSteps == {0, 2, 3}

RECURSIVE SetProduct(_)
SetProduct(S) ==
    IF S = {} THEN 1
    ELSE LET x == CHOOSE y \in S : TRUE IN x * SetProduct(S \ {x})

ClockStep ==
    LET P == SetProduct(DurationSteps \ {0})
        Common(k) == \A d \in DurationSteps \ {0} : k % d = 0
    IN  CHOOSE k \in 1..P : Common(k) /\ \A j \in 1..(k - 1) : ~Common(j)

Durations == {d * ClockStep : d \in DurationSteps}

\* the largest duration the caller may pass
MaxDuration == CHOOSE d \in Durations : \A e \in Durations : e <= d

\* ------------------------------------------------------- values of the source
Undefined == -1     \* startTime?: number  when absent
NoFrame == 0        \* rafId?: number      when absent
NaN == -2           \* the not-a-number the division 0 / 0 yields

\* 1000 ms in the source; the model's clock step stands for 500 ms
precisionCheckInterval == 2 * ClockStep

Min(a, b) == IF a <= b THEN a ELSE b
Max(a, b) == IF a >= b THEN a ELSE b
Abs(a) == IF a >= 0 THEN a ELSE 0 - a

\* a > b and a <= b of JavaScript where a may be not-a-number: both false then
JsGt(a, b) == a # NaN /\ a > b
JsLeq(a, b) == a # NaN /\ a <= b

\* JavaScript truthiness of an optional number: undefined and 0 are falsy
Truthy(x) == x # Undefined /\ x # 0

Op(name, arg) == [name |-> name, arg |-> arg]

\* ------------------------------------------------------------- TimerEngine
constructor(durationMs, t) ==
    [status |-> "idle",
     durationMs |-> durationMs,
     elapsedMs |-> 0,
     remainingMs |-> durationMs,
     startTime |-> Undefined,
     pauseAccumulatedMs |-> 0,
     lastUpdateTime |-> t,
     precisionDriftMs |-> 0]

\* the smallest frame id that no outstanding frame carries
requestAnimationFrame(pending) ==
    CHOOSE i \in 1..(Cardinality(pending) + 1) :
        i \notin pending /\ \A j \in 1..(i - 1) : j \in pending

\* mutant: the frame id is forgotten but the frame is not cancelled
stopRafLoop_NoCancel(id, pending) ==
    IF id # NoFrame THEN <<NoFrame, pending>> ELSE <<id, pending>>

\* stopRafLoop: the pair <<rafId, pendingFrames>> it leaves
stopRafLoop(id, pending) ==
    IF id # NoFrame THEN <<NoFrame, pending \ {id}>> ELSE <<id, pending>>

\* mutant: the time run before the last pause is left out of the total
updateTimeCalculations_NoPause(s, timestamp) ==
    IF s.startTime = Undefined THEN s
    ELSE LET sessionElapsed == timestamp - s.startTime
             totalElapsed == sessionElapsed
         IN  [s EXCEPT !.elapsedMs = Min(totalElapsed, s.durationMs),
                       !.remainingMs = Max(0, s.durationMs - totalElapsed),
                       !.lastUpdateTime = timestamp]

updateTimeCalculations(s, timestamp) ==
    IF s.startTime = Undefined THEN s
    ELSE LET sessionElapsed == timestamp - s.startTime
             totalElapsed == s.pauseAccumulatedMs + sessionElapsed
         IN  [s EXCEPT !.elapsedMs = Min(totalElapsed, s.durationMs),
                       !.remainingMs = Max(0, s.durationMs - totalElapsed),
                       !.lastUpdateTime = timestamp]

\* checkPrecision: the pair <<state, lastPrecisionCheck>> it leaves
checkPrecision(s, lastCheck, timestamp) ==
    IF timestamp - lastCheck < precisionCheckInterval THEN <<s, lastCheck>>
    ELSE LET actualElapsed == s.elapsedMs
             theoreticalElapsed ==
                 s.pauseAccumulatedMs +
                 (IF Truthy(s.startTime) THEN timestamp - s.startTime ELSE 0)
         IN  <<[s EXCEPT !.precisionDriftMs = Abs(theoreticalElapsed - actualElapsed)],
               timestamp>>

\* mutant: the rescale keeps the absolute elapsed time instead of the fraction
Rescale_KeepElapsed(durationMs, remainingMs, oldDuration) ==
    IF remainingMs = NaN \/ oldDuration = 0 THEN NaN
    ELSE durationMs - (oldDuration - remainingMs)

\* durationMs * (remainingMs / oldDuration) as JavaScript evaluates it
Rescale(durationMs, remainingMs, oldDuration) ==
    IF remainingMs = NaN \/ oldDuration = 0 THEN NaN
    ELSE (durationMs * remainingMs) \div oldDuration

\* Math.max(0, x)
MathMax0(x) == IF x = NaN THEN NaN ELSE Max(0, x)

\* mutant: start() does not start the frame loop
startBody_NoLoop ==
    IF state.status = "running"
    THEN /\ UNCHANGED <<state, rafId, lastPrecisionCheck, pendingFrames,
                        segSum, segStart, rescale>>
         /\ events' = <<>>
    ELSE /\ state' = [state EXCEPT !.status = "running",
                                   !.startTime = now,
                                   !.lastUpdateTime = now]
         /\ events' = <<"onStatusChange:running">>
         /\ lastPrecisionCheck' = now
         /\ segStart' = now
         /\ rescale' = IF state.status = "paused" /\ rescale = "paused"
                       THEN "resumed" ELSE "none"
         /\ UNCHANGED <<rafId, pendingFrames, segSum>>

\* start(), without the history of the call
startBody ==
    IF state.status = "running"
    THEN /\ UNCHANGED <<state, rafId, lastPrecisionCheck, pendingFrames,
                        segSum, segStart, rescale>>
         /\ events' = <<>>
    ELSE LET id == requestAnimationFrame(pendingFrames) IN
         /\ state' = [state EXCEPT !.status = "running",
                                   !.startTime = now,
                                   !.lastUpdateTime = now]
         /\ events' = <<"onStatusChange:running">>
         /\ lastPrecisionCheck' = now
         /\ rafId' = id
         /\ pendingFrames' = pendingFrames \cup {id}
         /\ segStart' = now
         /\ rescale' = IF state.status = "paused" /\ rescale = "paused"
                       THEN "resumed" ELSE "none"
         /\ UNCHANGED segSum

start ==
    /\ startBody
    /\ lastOp' = Op("start", 0)
    /\ UNCHANGED now

pause ==
    /\ lastOp' = Op("pause", 0)
    /\ UNCHANGED <<now, lastPrecisionCheck>>
    /\ IF state.status # "running"
       THEN /\ UNCHANGED <<state, rafId, pendingFrames, segSum, segStart, rescale>>
            /\ events' = <<>>
       ELSE LET sessionElapsed ==
                    IF Truthy(state.startTime) THEN now - state.startTime ELSE 0
                stopped == stopRafLoop(rafId, pendingFrames)
            IN  /\ state' = [state EXCEPT
                                !.status = "paused",
                                !.pauseAccumulatedMs =
                                    state.pauseAccumulatedMs + sessionElapsed,
                                !.startTime = Undefined,
                                !.lastUpdateTime = now]
                /\ events' = <<"onStatusChange:paused">>
                /\ rafId' = stopped[1]
                /\ pendingFrames' = stopped[2]
                /\ segSum' = segSum + (now - segStart)
                /\ segStart' = Undefined
                /\ rescale' = "none"

\* mutant: resume() without the status guard
resume_NoGuard ==
    /\ lastOp' = Op("resume", 0)
    /\ UNCHANGED now
    /\ startBody

resume ==
    /\ lastOp' = Op("resume", 0)
    /\ UNCHANGED now
    /\ IF state.status # "paused"
       THEN /\ UNCHANGED <<state, rafId, lastPrecisionCheck, pendingFrames,
                           segSum, segStart, rescale>>
            /\ events' = <<>>
       ELSE startBody

\* mutant: the time accumulated before the last pause survives the reset
reset_KeepPause ==
    LET stopped == stopRafLoop(rafId, pendingFrames) IN
    /\ lastOp' = Op("reset", 0)
    /\ state' = [constructor(state.durationMs, now) EXCEPT
                    !.pauseAccumulatedMs = state.pauseAccumulatedMs]
    /\ events' = <<"onStatusChange:idle">>
    /\ rafId' = stopped[1]
    /\ pendingFrames' = stopped[2]
    /\ segSum' = 0
    /\ segStart' = Undefined
    /\ rescale' = "none"
    /\ UNCHANGED <<now, lastPrecisionCheck>>

reset ==
    LET stopped == stopRafLoop(rafId, pendingFrames) IN
    /\ lastOp' = Op("reset", 0)
    /\ state' = constructor(state.durationMs, now)
    /\ events' = <<"onStatusChange:idle">>
    /\ rafId' = stopped[1]
    /\ pendingFrames' = stopped[2]
    /\ segSum' = 0
    /\ segStart' = Undefined
    /\ rescale' = "none"
    /\ UNCHANGED <<now, lastPrecisionCheck>>

\* mutant: no early return when the duration is the current one
setDuration_NoGuard(durationMs) ==
    /\ lastOp' = Op("setDuration", durationMs)
    /\ events' = <<>>
    /\ UNCHANGED <<now, rafId, lastPrecisionCheck, pendingFrames, segSum, segStart>>
    /\ rescale' = IF state.status = "paused" THEN "paused" ELSE "none"
    /\ LET oldDuration == state.durationMs
           rescaled ==
               [state EXCEPT
                   !.durationMs = durationMs,
                   !.remainingMs =
                       MathMax0(Rescale(durationMs, state.remainingMs, oldDuration))]
       IN  state' = updateTimeCalculations(rescaled, now)

setDuration(durationMs) ==
    /\ lastOp' = Op("setDuration", durationMs)
    /\ events' = <<>>
    /\ UNCHANGED <<now, rafId, lastPrecisionCheck, pendingFrames, segSum, segStart>>
    /\ rescale' = IF state.durationMs = durationMs THEN rescale
                  ELSE IF state.status = "paused" THEN "paused" ELSE "none"
    /\ IF state.durationMs = durationMs
       THEN UNCHANGED state
       ELSE LET oldDuration == state.durationMs
                rescaled ==
                    [state EXCEPT
                        !.durationMs = durationMs,
                        !.remainingMs =
                            MathMax0(Rescale(durationMs, state.remainingMs, oldDuration))]
            IN  state' = updateTimeCalculations(rescaled, now)

\* the frame callback `id` fires with the current clock reading as timestamp
rafTick(id) ==
    LET timestamp == now
        fired == pendingFrames \ {id}
    IN
    /\ id \in pendingFrames
    /\ lastOp' = Op("rafTick", timestamp)
    /\ UNCHANGED now
    /\ IF state.status # "running"
       THEN /\ pendingFrames' = fired
            /\ events' = <<>>
            /\ UNCHANGED <<state, rafId, lastPrecisionCheck, segSum, segStart,
                           rescale>>
       ELSE LET updated == updateTimeCalculations(state, timestamp)
                checked == checkPrecision(updated, lastPrecisionCheck, timestamp)
                s == checked[1]
            IN  /\ lastPrecisionCheck' = checked[2]
                /\ rescale' = "none"
                /\ IF s.remainingMs <= 0
                   THEN LET stopped == stopRafLoop(rafId, fired) IN
                        /\ state' = [s EXCEPT !.status = "finished",
                                              !.elapsedMs = s.durationMs,
                                              !.remainingMs = 0]
                        /\ events' = <<"onStatusChange:finished", "onFinish">>
                        /\ rafId' = stopped[1]
                        /\ pendingFrames' = stopped[2]
                        /\ segSum' = segSum + (timestamp - segStart)
                        /\ segStart' = Undefined
                   ELSE LET next == requestAnimationFrame(fired) IN
                        /\ state' = s
                        /\ events' = <<"onTick">>
                        /\ rafId' = next
                        /\ pendingFrames' = fired \cup {next}
                        /\ UNCHANGED <<segSum, segStart>>

\* destroy(): stops the frame loop and nothing else
destroy ==
    LET stopped == stopRafLoop(rafId, pendingFrames) IN
    /\ lastOp' = Op("destroy", 0)
    /\ events' = <<>>
    /\ rafId' = stopped[1]
    /\ pendingFrames' = stopped[2]
    /\ UNCHANGED <<state, now, lastPrecisionCheck, segSum, segStart, rescale>>

\* the clock source moves on (monotonic)
advanceClock ==
    /\ now < MaxTime * ClockStep
    /\ now' = now + ClockStep
    /\ lastOp' = Op("advanceClock", 0)
    /\ events' = <<>>
    /\ UNCHANGED <<state, rafId, lastPrecisionCheck, pendingFrames, segSum, segStart,
                   rescale>>

\* ----------------------------------------------------------- BellScheduler
BellTypes == <<"first", "second", "third">>
BellSet == {BellTypes[i] : i \in 1..Len(BellTypes)}

\* lastRemainingMs before the first sample: larger than every sample and than
\* every remaining time of the engine
Infinity == Max(MaxRemaining, MaxDuration) + 1

RemainingValues == 0..MaxRemaining
\* thresholds the settings may carry in the sampled-scheduler specification
ThresholdValues == {0, 1, 2}
\* thresholds given to shouldTriggerBell on its own (negative ones included)
AnyThreshold == (0 - 2)..MaxRemaining

\* store/index.ts: three bells at 3, 2 and 1 minutes, all enabled
DEFAULT_SETTINGS ==
    [bellEnabled |-> [b \in BellSet |-> TRUE],
     bellTimesMs |-> [b \in BellSet |->
                        CASE b = "first" -> 3 [] b = "second" -> 2 [] OTHER -> 1]]

DEFAULT_BELL_STATE ==
    [triggered |-> [b \in BellSet |-> FALSE], lastCheckMs |-> 0]

\* mutant: the threshold is not required to be positive
shouldTriggerBell_AnyThreshold(thresholdMs, currentRemainingMs, previousRemainingMs, enabled, alreadyTriggered) ==
    IF ~enabled THEN FALSE
    ELSE IF alreadyTriggered THEN FALSE
    ELSE JsGt(previousRemainingMs, thresholdMs) /\ JsLeq(currentRemainingMs, thresholdMs)

shouldTriggerBell(thresholdMs, currentRemainingMs, previousRemainingMs, enabled, alreadyTriggered) ==
    IF ~enabled THEN FALSE
    ELSE IF alreadyTriggered THEN FALSE
    ELSE IF thresholdMs <= 0 THEN FALSE
    ELSE JsGt(previousRemainingMs, thresholdMs) /\ JsLeq(currentRemainingMs, thresholdMs)

\* mutant: the first call is not set aside as the baseline
triggeredBells_NoBaseline(currentRemainingMs, previousRemainingMs, st, bellState) ==
    LET fires(b) == shouldTriggerBell(st.bellTimesMs[b], currentRemainingMs,
                                      previousRemainingMs, st.bellEnabled[b],
                                      bellState.triggered[b])
    IN  SelectSeq(BellTypes, fires)

\* the list checkBells returns, given the cursor, the settings and the bell state
triggeredBells(currentRemainingMs, previousRemainingMs, st, bellState) ==
    IF previousRemainingMs = Infinity THEN <<>>
    ELSE LET fires(b) == shouldTriggerBell(st.bellTimesMs[b], currentRemainingMs,
                                           previousRemainingMs, st.bellEnabled[b],
                                           bellState.triggered[b])
         IN  SelectSeq(BellTypes, fires)

\* mutant: the triggered flag is not set
triggerBell_Forget(bellState, type) == bellState

\* store action triggerBell(type)
triggerBell(bellState, type) ==
    [bellState EXCEPT !.triggered[type] = TRUE]

\* mutant: the triggered flags survive the reset
resetBells_Keep == bells

\* store action resetBells()
resetBells == DEFAULT_BELL_STATE

\* mutant: reset() leaves the cursor where it is
schedulerReset_KeepCursor == lastRemainingMs

\* BellScheduler.reset(): the cursor it leaves
schedulerReset == Infinity

RECURSIVE triggerAll(_, _)
triggerAll(bellState, types) ==
    IF types = <<>> THEN bellState
    ELSE triggerAll(triggerBell(bellState, Head(types)), Tail(types))

RECURSIVE bellEvents(_)
bellEvents(types) ==
    IF types = <<>> THEN <<>>
    ELSE <<"playBell", "onBellTriggered:" \o Head(types)>> \o bellEvents(Tail(types))

\* mutant: after the baseline the cursor moves only when a bell fires
checkBells_KeepCursor(currentRemainingMs) ==
    LET previousRemainingMs == lastRemainingMs
        fired == triggeredBells(currentRemainingMs, previousRemainingMs, settings, bells)
    IN
    /\ returned' = fired
    /\ events' = bellEvents(fired)
    /\ bells' = triggerAll(bells, fired)
    /\ lastRemainingMs' = IF fired = <<>> /\ previousRemainingMs # Infinity
                        THEN lastRemainingMs ELSE currentRemainingMs
    /\ UNCHANGED settings

\* checkBells(currentRemainingMs, settings, bells); the hook's onBellTriggered
\* callback calls the store's triggerBell for every bell that fires
checkBells(currentRemainingMs) ==
    LET previousRemainingMs == lastRemainingMs
        fired == triggeredBells(currentRemainingMs, previousRemainingMs, settings, bells)
    IN
    /\ returned' = fired
    /\ events' = bellEvents(fired)
    /\ bells' = triggerAll(bells, fired)
    /\ lastRemainingMs' = currentRemainingMs
    /\ UNCHANGED settings

\* the hook's reset(): BellScheduler.reset() and the store's resetBells()
resetScheduler ==
    /\ lastRemainingMs' = schedulerReset
    /\ bells' = resetBells
    /\ returned' = <<>>
    /\ events' = <<>>
    /\ UNCHANGED settings

NoCall ==
    [thresholdMs |-> 0, currentRemainingMs |-> 0, previousRemainingMs |-> 0,
     enabled |-> FALSE, alreadyTriggered |-> FALSE, done |-> FALSE, result |-> FALSE]

\* ------------------------------------------------------- the engine on its own
InitEngine ==
    /\ now = 0
    /\ rafId = NoFrame
    /\ lastPrecisionCheck = 0
    /\ pendingFrames = {}
    /\ lastOp = Op("constructor", 0)
    /\ events = <<>>
    /\ segSum = 0
    /\ segStart = Undefined
    /\ rescale = "none"

InitBells ==
    /\ lastRemainingMs = Infinity
    /\ bells = DEFAULT_BELL_STATE
    /\ returned = <<>>
    /\ samples = <<>>
    /\ firedAt = [b \in BellSet |-> {}]
    /\ firedEarlier = [b \in BellSet |-> FALSE]
    /\ refBells = DEFAULT_BELL_STATE
    /\ bellCalls = <<>>
    /\ others = <<>>
    /\ sinceReset = "none"
    /\ storeDurationMs = state.durationMs
    /\ engineSetDurationCalls = 0

Init ==
    /\ InitEngine
    /\ \E d \in Durations : state = constructor(d, 0)
    /\ InitBells
    /\ settings = DEFAULT_SETTINGS
    /\ call = NoCall

Start == start /\ UNCHANGED <<bellVars, call>>
Pause == pause /\ UNCHANGED <<bellVars, call>>
Resume == resume /\ UNCHANGED <<bellVars, call>>
Reset == reset /\ UNCHANGED <<bellVars, call>>
SetDuration == (\E d \in Durations : setDuration(d)) /\ UNCHANGED <<bellVars, call>>
Destroy == destroy /\ UNCHANGED <<bellVars, call>>
RafTick == (\E id \in pendingFrames : rafTick(id)) /\ UNCHANGED <<bellVars, call>>
AdvanceClock == advanceClock /\ UNCHANGED <<bellVars, call>>

Next ==
    \/ Start
    \/ Pause
    \/ Resume
    \/ Reset
    \/ SetDuration
    \/ Destroy
    \/ RafTick
    \/ AdvanceClock

Spec == Init /\ [][Next]_vars

\* ---------------------------------------- the scheduler under sampled remaining time
AllSettings ==
    {[bellEnabled |-> e, bellTimesMs |-> t] :
        e \in [BellSet -> BOOLEAN], t \in [BellSet -> ThresholdValues]}

InitBell ==
    /\ InitEngine
    /\ state = constructor(0, 0)
    /\ InitBells
    /\ settings \in AllSettings
    /\ call = NoCall

CheckBells ==
    /\ Len(samples) < MaxSamples
    /\ \E r \in RemainingValues :
        /\ checkBells(r)
        /\ lastOp' = Op("checkBells", r)
        /\ samples' = Append(samples, r)
        /\ firedAt' = [b \in BellSet |->
                         IF \E i \in 1..Len(returned') : returned'[i] = b
                         THEN firedAt[b] \cup {Len(samples) + 1}
                         ELSE firedAt[b]]
    /\ UNCHANGED <<state, rafId, lastPrecisionCheck, pendingFrames, now,
                   segSum, segStart, rescale, firedEarlier, refBells, bellCalls,
                   hookVars, call>>

ResetBells ==
    /\ resetScheduler
    /\ lastOp' = Op("hookReset", 0)
    /\ samples' = <<>>
    /\ firedAt' = [b \in BellSet |-> {}]
    /\ firedEarlier' = [b \in BellSet |-> firedEarlier[b] \/ firedAt[b] # {}]
    /\ UNCHANGED <<state, rafId, lastPrecisionCheck, pendingFrames, now,
                   segSum, segStart, rescale, refBells, bellCalls, hookVars, call>>

NextBell ==
    \/ CheckBells
    \/ ResetBells

SpecBell == InitBell /\ [][NextBell]_vars

\* ------------------------------------------- shouldTriggerBell as a pure function
InitShould ==
    /\ InitEngine
    /\ state = constructor(0, 0)
    /\ InitBells
    /\ settings = DEFAULT_SETTINGS
    /\ call \in [thresholdMs : AnyThreshold,
                 currentRemainingMs : RemainingValues,
                 previousRemainingMs : RemainingValues \cup {Infinity},
                 enabled : BOOLEAN,
                 alreadyTriggered : BOOLEAN,
                 done : {FALSE},
                 result : {FALSE}]

ApplyShouldTriggerBell ==
    /\ ~call.done
    /\ call' = [call EXCEPT
                  !.done = TRUE,
                  !.result = shouldTriggerBell(call.thresholdMs, call.currentRemainingMs,
                                               call.previousRemainingMs, call.enabled,
                                               call.alreadyTriggered)]
    /\ UNCHANGED <<engineVars, bellVars>>

NextShould == ApplyShouldTriggerBell

SpecShould == InitShould /\ [][NextShould]_vars

\* ----------------------- a timer left running: no pause(), reset() or destroy()
\* start() early enough for the largest duration to elapse within the clock bound
RunStart ==
    /\ now + MaxDuration <= MaxTime * ClockStep
    /\ Start

NextRun ==
    \/ RunStart
    \/ SetDuration
    \/ RafTick
    \/ AdvanceClock

\* the frame scheduler keeps delivering the frames it was asked for and the
\* clock keeps advancing
SpecRun == Init /\ [][NextRun]_vars /\ WF_vars(RafTick) /\ WF_vars(AdvanceClock)

\* ------------------------- useTimer: the engine, the scheduler and the store
\* settings of the hook specification, thresholds on the engine's time scale
HookSettings ==
    {[bellEnabled |-> [b \in BellSet |-> TRUE],
      bellTimesMs |-> [b \in BellSet |->
                         CASE b = "first" -> 2 * ClockStep
                           [] b = "second" -> ClockStep
                           [] OTHER -> 0]]}

\* mutant: the callbacks receive the state as it was before the step
callbackStates_Stale(after, evs) == [i \in 1..Len(evs) |-> state]

\* the state each callback of a step receives: this.state, which at every
\* callback site of the engine is the state the step leaves
callbackStates(after, evs) == [i \in 1..Len(evs) |-> after]

\* mutant: a rejected play() escapes from checkBells at the first firing bell
checkBellsCall_Throws(currentRemainingMs, previousRemainingMs, st, bellState, playFails) ==
    LET fired == triggeredBells(currentRemainingMs, previousRemainingMs, st, bellState)
        thrown == playFails /\ fired # <<>>
    IN  [remainingMs |-> currentRemainingMs,
         previousRemainingMs |-> previousRemainingMs,
         returned |-> IF thrown THEN <<>> ELSE fired,
         onBellTriggered |-> IF thrown THEN <<>> ELSE fired,
         onError |-> <<>>,
         playRejected |-> thrown,
         cursor |-> IF thrown THEN previousRemainingMs ELSE currentRemainingMs]

\* one checkBells call: what it returns, the bells it reports to
\* onBellTriggered, the bells whose play() failure reaches onError (playFails:
\* the audio manager's playBell() rejects) and the cursor it leaves
checkBellsCall(currentRemainingMs, previousRemainingMs, st, bellState, playFails) ==
    LET fired == triggeredBells(currentRemainingMs, previousRemainingMs, st, bellState)
    IN  [remainingMs |-> currentRemainingMs,
         previousRemainingMs |-> previousRemainingMs,
         returned |-> fired,
         onBellTriggered |-> fired,
         onError |-> IF playFails THEN fired ELSE <<>>,
         playRejected |-> playFails /\ fired # <<>>,
         cursor |-> currentRemainingMs]

\* the hook's subscriber, given the engine state s; h carries the scheduler's
\* cursor, the store's bells, the last returned list and the calls made so far
subscriber(h, s, playFails) ==
    LET c == checkBellsCall(s.remainingMs, h.cursor, settings, refBells, playFails)
        checked ==
            IF s.status = "running"
            THEN [h EXCEPT !.cursor = c.cursor,
                           !.bells = triggerAll(h.bells, c.onBellTriggered),
                           !.returned = c.returned,
                           !.calls = Append(h.calls, c)]
            ELSE h
    IN  IF s.status = "idle"
        THEN [checked EXCEPT !.bells = resetBells, !.cursor = schedulerReset]
        ELSE checked

\* the same callback in the i-th further observer, which has its own
\* BellScheduler and its own callbacksRef
otherSubscriber(h, i, s, playFails) ==
    LET o == h.others[i]
        c == checkBellsCall(s.remainingMs, o.lastRemainingMs, settings, o.refBells,
                            playFails)
        checked ==
            IF s.status = "running"
            THEN [h EXCEPT !.others[i].lastRemainingMs = c.cursor,
                           !.bells = triggerAll(h.bells, c.onBellTriggered),
                           !.returned = c.returned,
                           !.calls = Append(h.calls, c)]
            ELSE h
    IN  IF s.status = "idle"
        THEN [checked EXCEPT !.bells = resetBells,
                             !.others[i].lastRemainingMs = schedulerReset]
        ELSE checked

\* subscribers.forEach(callback => callback(state)), from the i-th further
\* observer on
RECURSIVE forEachOther(_, _, _, _)
forEachOther(h, i, s, playFails) ==
    IF i > Len(h.others) THEN h
    ELSE forEachOther(otherSubscriber(h, i, s, playFails), i + 1, s, playFails)

RECURSIVE notifySubscribers(_, _, _)
notifySubscribers(h, states, playFails) ==
    IF states = <<>> THEN h
    ELSE notifySubscribers(
             forEachOther(subscriber(h, Head(states), playFails), 1,
                          Head(states), playFails),
             Tail(states), playFails)

\* the schedulers and the store after the callbacks of the step have run;
\* returned is the list of the step's last checkBells call, empty without one
notified(playFails) ==
    notifySubscribers([cursor |-> lastRemainingMs, bells |-> bells,
                       returned |-> <<>>, calls |-> <<>>, others |-> others],
                      callbackStates(state', events'), playFails)

deliver(playFails) ==
    LET h == notified(playFails) IN
    /\ lastRemainingMs' = h.cursor
    /\ bells' = h.bells
    /\ returned' = h.returned
    /\ bellCalls' = h.calls
    /\ others' = h.others
    /\ UNCHANGED <<settings, refBells, samples, firedAt, firedEarlier, call>>

\* a step that does not call the hook's setDuration
noSetDuration ==
    /\ storeDurationMs' = storeDurationMs
    /\ engineSetDurationCalls' = 0

InitHook ==
    /\ InitEngine
    /\ \E d \in Durations : state = constructor(d, 0)
    /\ InitBells
    /\ settings \in HookSettings
    /\ call = NoCall

HookStart ==
    /\ \E playFails \in BOOLEAN : start /\ deliver(playFails)
    /\ sinceReset' = IF sinceReset = "reset" /\ state.status = "idle"
                     THEN "started" ELSE "none"
    /\ noSetDuration

HookPause == pause /\ deliver(FALSE) /\ sinceReset' = "none" /\ noSetDuration

HookResume ==
    /\ \E playFails \in BOOLEAN : resume /\ deliver(playFails)
    /\ sinceReset' = "none"
    /\ noSetDuration

\* the hook's reset(): the engine's reset(), then BellScheduler.reset() and
\* the store's resetBells()
HookReset ==
    /\ reset
    /\ LET h == notified(FALSE) IN
       /\ lastRemainingMs' = schedulerReset
       /\ bells' = resetBells
       /\ returned' = h.returned
       /\ bellCalls' = h.calls
       /\ others' = h.others
    /\ sinceReset' = "reset"
    /\ noSetDuration
    /\ UNCHANGED <<settings, refBells, samples, firedAt, firedEarlier, call>>

\* the effect that follows a change of the store's duration: it calls
\* timerSingleton.setDuration when the engine's duration differs from it
syncEffectCalls == IF state'.durationMs # storeDurationMs' THEN 1 ELSE 0

hookSetDuration_NoGuard(ms) ==
    /\ storeDurationMs' = ms
    /\ setDuration(ms)
    /\ engineSetDurationCalls' = 1 + syncEffectCalls

\* the hook's setDuration(ms)
hookSetDuration(ms) ==
    IF state.durationMs = ms
    THEN /\ setDuration(ms)
         /\ storeDurationMs' = storeDurationMs
         /\ engineSetDurationCalls' = 0
    ELSE /\ storeDurationMs' = ms
         /\ setDuration(ms)
         /\ engineSetDurationCalls' = 1 + syncEffectCalls

HookSetDuration ==
    /\ \E ms \in Durations : hookSetDuration(ms)
    /\ deliver(FALSE)
    /\ sinceReset' = "none"

HookRafTick ==
    /\ \E id \in pendingFrames, playFails \in BOOLEAN :
           rafTick(id) /\ deliver(playFails)
    /\ sinceReset' = "none"
    /\ noSetDuration

HookAdvanceClock ==
    /\ now < HookMaxTime * ClockStep
    /\ advanceClock
    /\ deliver(FALSE)
    /\ sinceReset' = sinceReset
    /\ noSetDuration

\* a render commits: in every observer the effect copies the store's bells
\* into callbacksRef
Render ==
    /\ \/ refBells # bells
       \/ \E i \in 1..Len(others) : others[i].refBells # bells
    /\ refBells' = bells
    /\ others' = [i \in 1..Len(others) |-> [others[i] EXCEPT !.refBells = bells]]
    /\ lastOp' = Op("render", 0)
    /\ events' = <<>>
    /\ bellCalls' = <<>>
    /\ returned' = <<>>
    /\ sinceReset' = sinceReset
    /\ noSetDuration
    /\ UNCHANGED <<state, rafId, lastPrecisionCheck, pendingFrames, now, segSum,
                   segStart, rescale, lastRemainingMs, settings, bells, samples,
                   firedAt, firedEarlier, call>>

NextHook ==
    \/ HookStart
    \/ HookPause
    \/ HookResume
    \/ HookReset
    \/ HookSetDuration
    \/ HookRafTick
    \/ HookAdvanceClock
    \/ Render

SpecHook == InitHook /\ [][NextHook]_vars

\* ------------------------ two components that use the hook, one shared engine
\* an observer as useTimer creates it: a new BellScheduler, and callbacksRef
\* holding the store's bells
observer == [lastRemainingMs |-> Infinity, refBells |-> DEFAULT_BELL_STATE]

InitShared ==
    /\ InitEngine
    /\ \E d \in Durations : state = constructor(d, 0)
    /\ lastRemainingMs = Infinity
    /\ bells = DEFAULT_BELL_STATE
    /\ returned = <<>>
    /\ samples = <<>>
    /\ firedAt = [b \in BellSet |-> {}]
    /\ firedEarlier = [b \in BellSet |-> FALSE]
    /\ refBells = DEFAULT_BELL_STATE
    /\ bellCalls = <<>>
    /\ others = <<observer>>
    /\ sinceReset = "none"
    /\ storeDurationMs = state.durationMs
    /\ engineSetDurationCalls = 0
    /\ settings \in HookSettings
    /\ call = NoCall

SharedAdvanceClock ==
    /\ now < SharedMaxTime * ClockStep
    /\ advanceClock
    /\ deliver(FALSE)
    /\ sinceReset' = sinceReset
    /\ noSetDuration

NextShared ==
    \/ HookStart
    \/ HookPause
    \/ HookResume
    \/ HookReset
    \/ HookRafTick
    \/ SharedAdvanceClock
    \/ Render

SpecShared == InitShared /\ [][NextShared]_vars

\* ------------------- src/hooks/useTimer.ts: the hook that owns its engine
\* one callback of the engine as this hook passes it: onTick calls checkBells
\* with the settings and bells of the render that created the engine,
\* onStatusChange resets the bells and the scheduler on idle
ownCallback(h, ev, s, playFails) ==
    LET c == checkBellsCall(s.remainingMs, h.cursor, settings, refBells, playFails)
    IN  IF ev = "onTick" /\ s.status = "running"
        THEN [h EXCEPT !.cursor = c.cursor,
                       !.bells = triggerAll(h.bells, c.onBellTriggered),
                       !.returned = c.returned,
                       !.calls = Append(h.calls, c)]
        ELSE IF ev = "onStatusChange:idle"
        THEN [h EXCEPT !.bells = resetBells, !.cursor = schedulerReset]
        ELSE h

RECURSIVE ownCallbacks(_, _, _, _)
ownCallbacks(h, evs, s, playFails) ==
    IF evs = <<>> THEN h
    ELSE ownCallbacks(ownCallback(h, Head(evs), s, playFails), Tail(evs), s,
                      playFails)

ownDeliver(playFails) ==
    LET h == ownCallbacks([cursor |-> lastRemainingMs, bells |-> bells,
                           returned |-> <<>>, calls |-> <<>>],
                          events', state', playFails) IN
    /\ lastRemainingMs' = h.cursor
    /\ bells' = h.bells
    /\ returned' = h.returned
    /\ bellCalls' = h.calls
    /\ UNCHANGED <<settings, refBells, samples, firedAt, firedEarlier, others, call>>

OwnStart ==
    /\ start
    /\ ownDeliver(FALSE)
    /\ sinceReset' = IF sinceReset = "reset" /\ state.status = "idle"
                     THEN "started" ELSE "none"
    /\ noSetDuration

OwnPause == pause /\ ownDeliver(FALSE) /\ sinceReset' = "none" /\ noSetDuration

OwnResume == resume /\ ownDeliver(FALSE) /\ sinceReset' = "none" /\ noSetDuration

\* reset(): the engine's reset(), BellScheduler.reset() and resetBells()
OwnReset ==
    /\ reset
    /\ LET h == ownCallbacks([cursor |-> lastRemainingMs, bells |-> bells,
                              returned |-> <<>>, calls |-> <<>>],
                             events', state', FALSE) IN
       /\ lastRemainingMs' = schedulerReset
       /\ bells' = resetBells
       /\ returned' = h.returned
       /\ bellCalls' = h.calls
    /\ sinceReset' = "reset"
    /\ noSetDuration
    /\ UNCHANGED <<settings, refBells, samples, firedAt, firedEarlier, others, call>>

\* setDuration(ms): the store's setDuration and the engine's; the effect on
\* timer.durationMs calls the engine's setDuration once more when the store's
\* value changed
OwnSetDuration ==
    /\ \E ms \in Durations :
           /\ storeDurationMs' = ms
           /\ setDuration(ms)
           /\ engineSetDurationCalls' = IF ms # storeDurationMs THEN 2 ELSE 1
    /\ ownDeliver(FALSE)
    /\ sinceReset' = "none"

OwnRafTick ==
    /\ \E id \in pendingFrames, playFails \in BOOLEAN :
           rafTick(id) /\ ownDeliver(playFails)
    /\ sinceReset' = "none"
    /\ noSetDuration

OwnAdvanceClock ==
    /\ now < OwnMaxTime * ClockStep
    /\ advanceClock
    /\ ownDeliver(FALSE)
    /\ sinceReset' = sinceReset
    /\ noSetDuration

\* a render after the store's bells changed: the engine effect has bells
\* among its dependencies, so its cleanup destroys the engine and the effect
\* creates a new one with the store's duration and the new bells
EngineEffect ==
    /\ refBells # bells
    /\ state' = constructor(storeDurationMs, now)
    /\ rafId' = NoFrame
    /\ pendingFrames' = stopRafLoop(rafId, pendingFrames)[2]
    /\ lastPrecisionCheck' = 0
    /\ refBells' = bells
    /\ lastOp' = Op("render", 0)
    /\ events' = <<>>
    /\ segSum' = 0
    /\ segStart' = Undefined
    /\ rescale' = "none"
    /\ bellCalls' = <<>>
    /\ returned' = <<>>
    /\ sinceReset' = sinceReset
    /\ noSetDuration
    /\ UNCHANGED <<now, lastRemainingMs, settings, bells, samples, firedAt,
                   firedEarlier, others, call>>

NextOwn ==
    \/ OwnStart
    \/ OwnPause
    \/ OwnResume
    \/ OwnReset
    \/ OwnSetDuration
    \/ OwnRafTick
    \/ OwnAdvanceClock
    \/ EngineEffect

SpecOwn == InitHook /\ [][NextOwn]_vars

\* ------------------------------- callbacks that call back into the engine
\* The engine as a value: its state, rafId, the outstanding frames,
\* lastPrecisionCheck and the callbacks invoked so far in the step.
Engine ==
    [state |-> state, rafId |-> rafId, pendingFrames |-> pendingFrames,
     lastPrecisionCheck |-> lastPrecisionCheck, events |-> <<>>]

\* start(): the assignment to this.state, up to the onStatusChange call
setRunning(e, t) ==
    [e EXCEPT !.state = [@ EXCEPT !.status = "running",
                                  !.startTime = t,
                                  !.lastUpdateTime = t],
              !.events = Append(@, "onStatusChange:running")]

\* startRafLoop(): rafId is overwritten, a frame it held stays requested
startRafLoopE(e, t) ==
    LET id == requestAnimationFrame(e.pendingFrames) IN
    [e EXCEPT !.lastPrecisionCheck = t,
              !.rafId = id,
              !.pendingFrames = @ \cup {id}]

stopRafLoopE(e) ==
    LET stopped == stopRafLoop(e.rafId, e.pendingFrames) IN
    [e EXCEPT !.rafId = stopped[1], !.pendingFrames = stopped[2]]

\* pause(): the assignment to this.state, up to the onStatusChange call
setPaused(e, t) ==
    LET sessionElapsed ==
            IF Truthy(e.state.startTime) THEN t - e.state.startTime ELSE 0
    IN  [e EXCEPT !.state = [@ EXCEPT !.status = "paused",
                                      !.pauseAccumulatedMs = @ + sessionElapsed,
                                      !.startTime = Undefined,
                                      !.lastUpdateTime = t],
                  !.events = Append(@, "onStatusChange:paused")]

\* reset(): the assignment to this.state, up to the onStatusChange call
setIdle(e, t) ==
    [e EXCEPT !.state = constructor(e.state.durationMs, t),
              !.events = Append(@, "onStatusChange:idle")]

\* the operations as a callback calls them (their own callbacks do nothing)
startE(e, t) ==
    IF e.state.status = "running" THEN e ELSE startRafLoopE(setRunning(e, t), t)

pauseE(e, t) ==
    IF e.state.status # "running" THEN e ELSE stopRafLoopE(setPaused(e, t))

resumeE(e, t) ==
    IF e.state.status # "paused" THEN e ELSE startE(e, t)

resetE(e, t) == stopRafLoopE(setIdle(e, t))

\* what a callback may do: nothing, or call one operation of the engine
CallbackOps == {"none", "start", "pause", "resume", "reset"}

callback(op, e, t) ==
    CASE op = "start" -> startE(e, t)
      [] op = "pause" -> pauseE(e, t)
      [] op = "resume" -> resumeE(e, t)
      [] op = "reset" -> resetE(e, t)
      [] OTHER -> e

\* the operations with an onStatusChange / onTick callback that calls op
startR(e, t, op) ==
    IF e.state.status = "running" THEN e
    ELSE startRafLoopE(callback(op, setRunning(e, t), t), t)

pauseR(e, t, op) ==
    IF e.state.status # "running" THEN e
    ELSE stopRafLoopE(callback(op, setPaused(e, t), t))

resumeR(e, t, op) ==
    IF e.state.status # "paused" THEN e ELSE startR(e, t, op)

resetR(e, t, op) == stopRafLoopE(callback(op, setIdle(e, t), t))

rafTickR(e, id, timestamp, op) ==
    LET fired == [e EXCEPT !.pendingFrames = @ \ {id}] IN
    IF e.state.status # "running" THEN fired
    ELSE LET updated == updateTimeCalculations(e.state, timestamp)
             checked == checkPrecision(updated, e.lastPrecisionCheck, timestamp)
             ticked == [fired EXCEPT !.state = checked[1],
                                     !.lastPrecisionCheck = checked[2]]
         IN  IF ticked.state.remainingMs <= 0
             THEN LET finished ==
                          [ticked EXCEPT
                              !.state = [@ EXCEPT !.status = "finished",
                                                  !.elapsedMs = ticked.state.durationMs,
                                                  !.remainingMs = 0],
                              !.events = @ \o <<"onStatusChange:finished",
                                                "onFinish">>]
                  IN  stopRafLoopE(callback(op, finished, timestamp))
             ELSE LET called == callback(op, [ticked EXCEPT
                                                !.events = Append(@, "onTick")],
                                         timestamp)
                      next == requestAnimationFrame(called.pendingFrames)
                  IN  IF called.state.status = "running"
                      THEN [called EXCEPT !.rafId = next,
                                          !.pendingFrames = @ \cup {next}]
                      ELSE called

\* the step that leaves the engine as the value e; the run-time and rescale
\* histories are not kept in this specification
becomes(e, name, arg) ==
    /\ Cardinality(e.pendingFrames) <= MaxFrames
    /\ state' = e.state
    /\ rafId' = e.rafId
    /\ pendingFrames' = e.pendingFrames
    /\ lastPrecisionCheck' = e.lastPrecisionCheck
    /\ events' = e.events
    /\ lastOp' = Op(name, arg)
    /\ UNCHANGED <<now, segSum, segStart, rescale, bellVars, call>>

NestStart == \E op \in CallbackOps : becomes(startR(Engine, now, op), "start", 0)

NestPause == \E op \in CallbackOps : becomes(pauseR(Engine, now, op), "pause", 0)

NestResume == \E op \in CallbackOps : becomes(resumeR(Engine, now, op), "resume", 0)

NestReset == \E op \in CallbackOps : becomes(resetR(Engine, now, op), "reset", 0)

NestRafTick ==
    \E id \in pendingFrames, op \in CallbackOps :
        becomes(rafTickR(Engine, id, now, op), "rafTick", now)

NestAdvanceClock ==
    /\ now < NestMaxTime * ClockStep
    /\ AdvanceClock

NextNest ==
    \/ NestStart
    \/ NestPause
    \/ NestResume
    \/ NestReset
    \/ SetDuration
    \/ NestRafTick
    \/ NestAdvanceClock

SpecNest == Init /\ [][NextNest]_vars

\* ===================================================================
\* Properties
\* ===================================================================
IsNumber(x) == x # NaN

\* the true run time so far: completed run segments plus the open one
RunTime == segSum + (IF segStart # Undefined THEN now - segStart ELSE 0)

In(seq, x) == \E i \in 1..Len(seq) : seq[i] = x

NonIncreasing(seq) == \A i \in 1..(Len(seq) - 1) : seq[i + 1] <= seq[i]

\* C1: in every reachable engine state remainingMs + elapsedMs = durationMs
\* and both remainingMs and elapsedMs are numbers within [0, durationMs].
C1_TimeInvariant ==
    /\ IsNumber(state.remainingMs)
    /\ state.remainingMs + state.elapsedMs = state.durationMs
    /\ 0 <= state.remainingMs /\ state.remainingMs <= state.durationMs
    /\ 0 <= state.elapsedMs /\ state.elapsedMs <= state.durationMs

\* C2: under a caller that marks a bell triggered as soon as checkBells reports
\* it, every bell is reported (and played) at most once between two resets,
\* also when the remaining time rises and crosses the threshold again; with
\* threshold 2 and samples 3, 1, 0 the bell fires on the second sample only.
C2_ExactlyOnceBell ==
    \A b \in BellSet :
        /\ Cardinality(firedAt[b]) <= 1
        /\ Cardinality({i \in 1..Len(returned) : returned[i] = b}) <= 1
        /\ Cardinality({i \in 1..Len(events) :
                            events[i] = "onBellTriggered:" \o b}) <= 1
        /\ (/\ Len(samples) >= 3
            /\ SubSeq(samples, 1, 3) = <<3, 1, 0>>
            /\ settings.bellTimesMs[b] = 2
            /\ settings.bellEnabled[b])
           => firedAt[b] \cap (1..3) = {2}

\* a bell fired on the second sample, the remaining time rose above its
\* threshold and fell to it again, and the bell stayed silent
C2_Witness ==
    \E b \in BellSet :
        /\ Len(samples) = 4
        /\ firedAt[b] = {2}
        /\ samples[3] > settings.bellTimesMs[b]
        /\ samples[4] <= settings.bellTimesMs[b]

\* C3: a frame tick of a running timer that observes
\* pauseAccumulatedMs + (timestamp - startTime) >= durationMs ends with status
\* finished, elapsedMs = durationMs, remainingMs = 0, onFinish invoked and no
\* frame outstanding.
C3_CompletionClamp ==
    [][(/\ lastOp'.name = "rafTick"
        /\ state.status = "running"
        /\ state.pauseAccumulatedMs + (lastOp'.arg - state.startTime)
               >= state.durationMs)
       => (/\ state'.status = "finished"
           /\ state'.elapsedMs = state'.durationMs
           /\ state'.remainingMs = 0
           /\ In(events', "onFinish")
           /\ pendingFrames' = {}
           /\ rafId' = NoFrame)]_vars

\* a tick has just finished a timer that had been paused before, overshooting
\* the duration
C3_Witness ==
    /\ lastOp.name = "rafTick"
    /\ state.status = "finished"
    /\ In(events, "onFinish")
    /\ state.pauseAccumulatedMs > 0
    /\ state.pauseAccumulatedMs + (lastOp.arg - state.startTime) > state.durationMs

\* C4: the elapsedMs a tick computes is min(durationMs, length of the completed
\* run segments + time since the open segment began); paused time is not counted.
C4_PauseResumeConservation ==
    (lastOp.name = "rafTick" /\ events # <<>>)
        => state.elapsedMs = Min(state.durationMs, RunTime)

\* C5: setDuration(d) with d equal to the current durationMs changes nothing,
\* in every status.
C5_SetDurationIdempotent ==
    [][(lastOp'.name = "setDuration" /\ lastOp'.arg = state.durationMs)
       => (/\ state' = state
           /\ events' = <<>>
           /\ UNCHANGED <<rafId, lastPrecisionCheck, pendingFrames, now,
                          segSum, segStart>>)]_vars

\* setDuration was called with the current duration on a running timer whose
\* last recompute is older than the clock reading
C5_Witness ==
    /\ lastOp.name = "setDuration"
    /\ lastOp.arg = state.durationMs
    /\ state.status = "running"
    /\ state.lastUpdateTime < now
    /\ state.elapsedMs > 0

C7_NoStartBelowThreshold ==
    /\ Len(samples) <= 1 => (returned = <<>> /\ events = <<>>)
    /\ \A b \in BellSet :
           (/\ Len(samples) >= 1
            /\ samples[1] <= settings.bellTimesMs[b]
            /\ NonIncreasing(samples))
           => firedAt[b] = {}

\* after a reset, an enabled bell with a positive threshold has seen three
\* falling samples that all lie at or below its threshold
C7_Witness ==
    \E b \in BellSet :
        /\ \E c \in BellSet : firedEarlier[c]
        /\ settings.bellEnabled[b]
        /\ settings.bellTimesMs[b] > 0
        /\ Len(samples) >= 3
        /\ samples[1] <= settings.bellTimesMs[b]
        /\ samples[2] < samples[1]
        /\ samples[3] < samples[2]

\* C8: shouldTriggerBell answers false whenever thresholdMs <= 0, whatever the
\* two samples and the enabled and triggered flags are.
C8_NonPositiveThresholdNeverFires ==
    (call.done /\ call.thresholdMs <= 0) => ~call.result

\* shouldTriggerBell was applied to an enabled, untriggered bell with threshold
\* 0 and a falling pair of samples that reaches 0
C8_Witness ==
    /\ call.done
    /\ call.thresholdMs = 0
    /\ call.enabled
    /\ ~call.alreadyTriggered
    /\ call.previousRemainingMs > 0
    /\ call.currentRemainingMs = 0

\* C9: a bell that fired before the last reset fires again when, after the
\* reset, a baseline sample above its threshold is followed by a sample at or
\* below it.
C9_ResetRearms ==
    \A b \in BellSet :
        (/\ firedEarlier[b]
         /\ Len(samples) >= 2
         /\ samples[1] > settings.bellTimesMs[b]
         /\ samples[2] <= settings.bellTimesMs[b])
        => 2 \in firedAt[b]

\* a bell that fired before the last reset has fired again after it
C9_Witness ==
    \E b \in BellSet :
        /\ firedEarlier[b]
        /\ Len(samples) >= 2
        /\ samples[1] > settings.bellTimesMs[b]
        /\ 2 \in firedAt[b]

\* C10: once the status is finished it stays finished under every operation
\* but reset(), which makes it idle.
C10_FinishedTerminal ==
    [][state.status = "finished"
       => IF lastOp'.name = "reset"
          THEN state'.status = "idle"
          ELSE state'.status = "finished"]_vars

\* C11: pause() when the status is not running, resume() when it is not paused
\* and start() when it is running leave every field of the engine state as it
\* was, invoke no callback and request no frame.
C11_IllegalCallsIgnored ==
    [][(\/ lastOp'.name = "pause" /\ state.status # "running"
        \/ lastOp'.name = "resume" /\ state.status # "paused"
        \/ lastOp'.name = "start" /\ state.status = "running")
       => (/\ state' = state
           /\ events' = <<>>
           /\ UNCHANGED <<rafId, pendingFrames, lastPrecisionCheck>>)]_vars

\* resume() has just been called on a timer that had finished
C11_Witness ==
    /\ lastOp.name = "resume"
    /\ state.status = "finished"
    /\ events = <<>>
    /\ pendingFrames = {}

\* C12: when pause(), reset() or destroy() has returned no frame callback is
\* outstanding; every outstanding frame callback is the one the running loop
\* holds in rafId, so none requested before a stop survives it, and a frame
\* callback that fires on an engine that is not running changes no field.
C12_Cancellation ==
    [][/\ lastOp'.name \in {"pause", "reset", "destroy"}
          => (pendingFrames' = {} /\ rafId' = NoFrame)
       /\ pendingFrames' \subseteq {rafId'}
       /\ pendingFrames' # {} => state'.status = "running"
       /\ (lastOp'.name = "rafTick" /\ state.status # "running")
          => state' = state]_vars

\* destroy() has just cancelled the frame of a running timer that had been
\* paused and resumed before
C12_Witness ==
    /\ lastOp.name = "destroy"
    /\ state.status = "running"
    /\ state.pauseAccumulatedMs > 0
    /\ pendingFrames = {}
    /\ rafId = NoFrame

\* C13: reset() in any status leaves status idle, elapsedMs 0,
\* pauseAccumulatedMs 0, precisionDriftMs 0, remainingMs = durationMs, no start
\* timestamp, durationMs as it was and no frame callback outstanding.
C13_ResetAnyStatus ==
    [][lastOp'.name = "reset"
       => (/\ state'.status = "idle"
           /\ state'.elapsedMs = 0
           /\ state'.pauseAccumulatedMs = 0
           /\ state'.precisionDriftMs = 0
           /\ state'.remainingMs = state'.durationMs
           /\ state'.startTime = Undefined
           /\ state'.durationMs = state.durationMs
           /\ pendingFrames' = {}
           /\ rafId' = NoFrame)]_vars

\* reset() has just been called on a timer that had been started
C13_Witness ==
    /\ lastOp.name = "reset"
    /\ state.status = "idle"
    /\ state.durationMs > 0
    /\ lastPrecisionCheck > 0
    /\ state.lastUpdateTime > lastPrecisionCheck

\* C14: in every reachable engine state the start timestamp is defined exactly
\* when the status is running.
C14_StartTimeIffRunning ==
    (state.startTime # Undefined) <=> (state.status = "running")

\* C15: in every reachable state with status finished, elapsedMs = durationMs
\* and remainingMs = 0.
C15_FinishedClamped ==
    state.status = "finished"
        => (state.elapsedMs = state.durationMs /\ state.remainingMs = 0)

\* C19: a step that leaves a running engine running (a tick, a setDuration
\* call; not a reset, which leaves it idle) does not lower elapsedMs.
C19_ElapsedMonotone ==
    [][(state.status = "running" /\ state'.status = "running")
       => state'.elapsedMs >= state.elapsedMs]_vars

\* C20: a checkBells call after the baseline returns, in the order first,
\* second, third, exactly the bells that are enabled, not yet triggered, have a
\* positive threshold and whose threshold lies below the previous sample and at
\* or above the current one (all of them when one sample crosses several), and
\* leaves the cursor at the current sample whether or not a bell fired.
C20_CrossingRule ==
    [][(lastOp'.name = "checkBells" /\ lastRemainingMs # Infinity)
       => LET cur == lastOp'.arg
              crossed(b) ==
                  /\ settings.bellEnabled[b]
                  /\ ~bells.triggered[b]
                  /\ settings.bellTimesMs[b] > 0
                  /\ lastRemainingMs > settings.bellTimesMs[b]
                  /\ cur <= settings.bellTimesMs[b]
          IN  /\ returned' = SelectSeq(BellTypes, crossed)
              /\ lastRemainingMs' = cur]_vars

\* one sample crossed two thresholds, landing exactly on one of them, and a
\* bell in between stayed silent
C20_Witness ==
    /\ lastOp.name = "checkBells"
    /\ Len(samples) >= 2
    /\ returned = <<"first", "third">>
    /\ \E i \in 1..Len(returned) :
           settings.bellTimesMs[returned[i]] = lastRemainingMs
    /\ \E i \in 1..Len(returned) :
           settings.bellTimesMs[returned[i]] > lastRemainingMs

\* C18: with frames delivered, the clock advancing and no pause(), reset() or
\* destroy(), a running timer always has a frame callback outstanding and
\* eventually reaches the status finished.
C18_RunningEventuallyFinishes ==
    /\ [](state.status = "running" => pendingFrames # {})
    /\ (state.status = "running") ~> (state.status = "finished")

\* a timer whose duration was changed while it ran has been finished by a tick
C18_Witness ==
    /\ lastOp.name = "rafTick"
    /\ state.status = "finished"
    /\ state.durationMs = MaxDuration
    /\ state.pauseAccumulatedMs + (lastOp.arg - state.startTime) > MaxDuration

\* C16: when play() rejects for a bell that fires, checkBells still returns the
\* bells that crossed, reports each to onBellTriggered (the store marks it
\* triggered) and to onError, and moves the cursor to the sample; the engine
\* goes on as the step alone leaves it: running, with the elapsed time the tick
\* computed (or unchanged, on start and resume) and a frame outstanding.
C16_AudioFailureContained ==
    [][\A i \in 1..Len(bellCalls') :
          bellCalls'[i].playRejected
          => LET c == bellCalls'[i] IN
             /\ c.returned # <<>>
             /\ c.returned = triggeredBells(c.remainingMs, lastRemainingMs,
                                            settings, refBells)
             /\ c.onBellTriggered = c.returned
             /\ c.onError = c.returned
             /\ \A j \in 1..Len(c.returned) : bells'.triggered[c.returned[j]]
             /\ lastRemainingMs' = c.remainingMs
             /\ state'.status = "running"
             /\ pendingFrames' # {}
             /\ state'.elapsedMs =
                    IF lastOp'.name = "rafTick"
                    THEN Min(state.durationMs,
                             state.pauseAccumulatedMs + (now - state.startTime))
                    ELSE state.elapsedMs]_vars

\* play() was rejected for a bell that a frame tick fired
C16_Witness ==
    /\ lastOp.name = "rafTick"
    /\ Len(bellCalls) = 1
    /\ bellCalls[1].playRejected
    /\ bellCalls[1].onError # <<>>
    /\ state.elapsedMs > 0

\* C17: every checkBells call made during a frame tick is given the
\* remainingMs the engine computed in that tick from the tick's timestamp.
C17_TickOrdering ==
    lastOp.name = "rafTick"
        => \A i \in 1..Len(bellCalls) :
               /\ bellCalls[i].remainingMs = state.remainingMs
               /\ bellCalls[i].remainingMs =
                      Max(0, state.durationMs -
                             (state.pauseAccumulatedMs + (lastOp.arg - state.startTime)))
               /\ state.lastUpdateTime = lastOp.arg

\* a frame tick lowered the remaining time and the checkBells call it made
\* fired a bell on the new value
C17_Witness ==
    /\ lastOp.name = "rafTick"
    /\ Len(bellCalls) = 1
    /\ bellCalls[1].remainingMs < bellCalls[1].previousRemainingMs
    /\ bellCalls[1].returned # <<>>
    /\ state.remainingMs > 0

C22_ZeroDurationGuard ==
    [][(/\ lastOp'.name = "setDuration"
        /\ state.durationMs = 0)
       => (/\ state'.durationMs = lastOp'.arg
           /\ IsNumber(state'.remainingMs)
           /\ state'.remainingMs = 0)]_vars

\* C27: when pause() has left the status paused, elapsedMs = min(durationMs,
\* pauseAccumulatedMs) and remainingMs = durationMs - elapsedMs: the time run
\* between the last frame tick and the pause() call is in the snapshot.
C27_PausedSnapshotConsistent ==
    (state.status = "paused" /\ lastOp.name = "pause")
        => (/\ state.elapsedMs = Min(state.durationMs, state.pauseAccumulatedMs)
            /\ state.remainingMs = state.durationMs - state.elapsedMs)

\* C30: after setDuration(newD) with a new value on a paused timer and the
\* resume() that follows, a tick that comes next reports remainingMs = max(0,
\* rescaled remainingMs - time run since the resume).  Stated for rescaled values that
\* are numbers.
C30_RescaleSurvivesResume ==
    [][(/\ rescale = "resumed"
        /\ lastOp.name = "resume"
        /\ lastOp'.name = "rafTick"
        /\ IsNumber(state.remainingMs))
       => state'.remainingMs =
              Max(0, state.remainingMs - (lastOp'.arg - state.startTime))]_vars

\* C28: in every state reached by start, pause, resume, reset, setDuration and
\* frame ticks, also with callbacks that call engine operations, at most one
\* frame callback is outstanding, and one is outstanding exactly when the
\* status is running.
C28_OneFrameIffRunning ==
    /\ Cardinality(pendingFrames) <= 1
    /\ (pendingFrames # {}) <=> (state.status = "running")

C24_SetDurationDedupe ==
    [][/\ lastOp'.name = "setDuration"
          => IF lastOp'.arg = state.durationMs
             THEN /\ engineSetDurationCalls' = 0
                  /\ storeDurationMs' = storeDurationMs
                  /\ state' = state
                  /\ UNCHANGED <<rafId, pendingFrames, lastPrecisionCheck>>
             ELSE /\ engineSetDurationCalls' = 1
                  /\ state'.durationMs = lastOp'.arg
                  /\ storeDurationMs' = lastOp'.arg
       /\ storeDurationMs' = state'.durationMs]_vars

\* the hook's setDuration changed the duration of a running timer
C24_Witness ==
    /\ lastOp.name = "setDuration"
    /\ engineSetDurationCalls = 1
    /\ state.status = "running"
    /\ state.elapsedMs > 0
    /\ storeDurationMs = state.durationMs


\* C26: on the frame tick that finishes the timer, every enabled bell with a
\* positive threshold that the scheduler's last sample of the run was still
\* above, and that the store does not hold as triggered, fires.
C26_NoBellLost ==
    [][(/\ lastOp'.name = "rafTick"
        /\ state.status = "running"
        /\ state'.status = "finished")
       => \A b \in BellSet :
              (/\ settings.bellEnabled[b]
               /\ settings.bellTimesMs[b] > 0
               /\ ~bells.triggered[b]
               /\ ~refBells.triggered[b]
               /\ lastRemainingMs # Infinity
               /\ JsGt(lastRemainingMs, settings.bellTimesMs[b])
               /\ JsGt(state.durationMs, settings.bellTimesMs[b]))
              => bells'.triggered[b]]_vars


\* C25: with two observers of the shared engine, the checkBells calls of one
\* step report each bell to onBellTriggered (play() and the store's
\* triggerBell) at most once in total.
C25_OncePerCrossing ==
    \A b \in BellSet :
        Cardinality({i \in 1..Len(bellCalls) :
                        \E j \in 1..Len(bellCalls[i].onBellTriggered) :
                            bellCalls[i].onBellTriggered[j] = b}) <= 1


\* C29: the render that follows a bell firing on a running timer leaves the
\* engine as it was: status running, elapsedMs, pauseAccumulatedMs and
\* startTime unchanged, and the same frame outstanding.
C29_BellLeavesTimerAlone ==
    [][(/\ lastOp'.name = "render"
        /\ state.status = "running"
        /\ \E b \in BellSet : bells.triggered[b] /\ ~refBells.triggered[b])
       => /\ state'.status = "running"
          /\ state'.elapsedMs = state.elapsedMs
          /\ state'.pauseAccumulatedMs = state.pauseAccumulatedMs
          /\ state'.startTime = state.startTime
          /\ pendingFrames' = pendingFrames
          /\ rafId' = rafId]_vars

====
